---- MODULE Spec2Model ----
(***************************************************************************)
(* Model of the book-catalogue web application in src/main.py: the `book`  *)
(* table, and the request handlers home, add, edit and delete.             *)
(*                                                                         *)
(* Text (form fields, query arguments, titles) is a sequence of            *)
(* one-character strings, so that strip(), float() and the id comparison   *)
(* of the storage layer are computed character by character.               *)
(*                                                                         *)
(* The requests modelled are those that reach a handler, i.e. that carry   *)
(* a valid anti-forgery token (CSRFProtect, line 14).                      *)
(***************************************************************************)
EXTENDS Integers, Sequences, FiniteSets, TLC

VARIABLES
    books,      \* the rows of table `book`: records [id, title, author, rating]
    pending,    \* per request thread: the Book a POST /add is about to insert
    resp,       \* the response of the last request that completed
    assigned    \* history: every id the storage layer has assigned so far

vars == <<books, pending, resp, assigned>>

----------------------------------------------------------------------------
(* Bounds *)

\* Inserts stop once the next row id would exceed MaxId.
MaxId == 2

\* The request threads that can be inside POST /add at the same time.
Workers == {"w1", "w2"}

----------------------------------------------------------------------------
(* Text *)

IsSpace(c) == c = " "

RECURSIVE LStrip(_)
LStrip(s) == IF s # <<>> /\ IsSpace(Head(s)) THEN LStrip(Tail(s)) ELSE s

RECURSIVE RStrip(_)
RStrip(s) ==
    IF s # <<>> /\ IsSpace(s[Len(s)]) THEN RStrip(SubSeq(s, 1, Len(s) - 1)) ELSE s

\* strip as lstrip: trailing spaces kept.
strip_Leading(s) == LStrip(s)

\* str.strip()
strip(s) == RStrip(LStrip(s))

DigitChars == {"0", "1", "2", "3", "4", "5", "6", "7", "8", "9"}

DigitVal(c) ==
    CASE c = "0" -> 0 [] c = "1" -> 1 [] c = "2" -> 2 [] c = "3" -> 3
      [] c = "4" -> 4 [] c = "5" -> 5 [] c = "6" -> 6 [] c = "7" -> 7
      [] c = "8" -> 8 [] c = "9" -> 9

AllDigits(s) == \A i \in 1..Len(s) : s[i] \in DigitChars

RECURSIVE DigitsToNat(_)
DigitsToNat(ds) ==
    IF ds = <<>> THEN 0
    ELSE 10 * DigitsToNat(SubSeq(ds, 1, Len(ds) - 1)) + DigitVal(ds[Len(ds)])

RECURSIVE Pow10(_)
Pow10(n) == IF n = 0 THEN 1 ELSE 10 * Pow10(n - 1)

\* Code points of the characters that occur in titles (BINARY collation).
CharCode(c) ==
    CASE c = " " -> 32 [] c = "A" -> 65 [] c = "B" -> 66
      [] c = "a" -> 97 [] c = "b" -> 98 [] c = "x" -> 120

\* s sorts strictly before t: byte-wise lexicographic, a proper prefix first.
RECURSIVE TextLess(_, _)
TextLess(s, t) ==
    IF t = <<>> THEN FALSE
    ELSE IF s = <<>> THEN TRUE
    ELSE IF Head(s) # Head(t) THEN CharCode(Head(s)) < CharCode(Head(t))
    ELSE TextLess(Tail(s), Tail(t))

----------------------------------------------------------------------------
(* Floating-point values: num/den with den = 10^k (den = 0 for an          *)
(* infinity), or not-a-number.                                             *)

Fin(num, den) == [kind |-> "fin", num |-> num, den |-> den]
Inf(sgn)      == [kind |-> "inf", num |-> sgn, den |-> 0]
NaN           == [kind |-> "nan", num |-> 0, den |-> 1]
ValueError    == [kind |-> "ValueError", num |-> 0, den |-> 1]

\* Lowest terms over powers of ten, so that equal values are equal records.
RECURSIVE Normalise(_, _)
Normalise(num, den) ==
    IF den > 1 /\ num % 10 = 0 THEN Normalise(num \div 10, den \div 10)
    ELSE Fin(num, den)

\* float(str): [sign] digits [. digits] | [sign] . digits | [sign] inf | [sign] nan
float(s) ==
    LET t      == strip(s)
        signed == t # <<>> /\ Head(t) \in {"+", "-"}
        sgn    == IF signed /\ Head(t) = "-" THEN -1 ELSE 1
        body   == IF signed THEN Tail(t) ELSE t
        dots   == {i \in 1..Len(body) : body[i] = "."}
    IN  IF body = <<"i", "n", "f">> THEN Inf(sgn)
        ELSE IF body = <<"n", "a", "n">> THEN NaN
        ELSE IF Cardinality(dots) > 1 THEN ValueError
        ELSE LET d  == IF dots = {} THEN Len(body) + 1 ELSE CHOOSE i \in dots : TRUE
                 ip == SubSeq(body, 1, d - 1)
                 fp == SubSeq(body, d + 1, Len(body))
                 m  == Normalise(DigitsToNat(ip \o fp), Pow10(Len(fp)))
             IN  IF AllDigits(ip) /\ AllDigits(fp) /\ Len(ip) + Len(fp) > 0
                 THEN Fin(sgn * m.num, m.den)
                 ELSE ValueError

\* a < b on floats: every comparison with a NaN is false.
FloatLt(a, b) ==
    /\ a.kind # "nan"
    /\ b.kind # "nan"
    /\ a.num * b.den < b.num * a.den

Zero == Fin(0, 1)
Ten  == Fin(10, 1)

\* `rating < 0 or rating > 10`
OutOfRange(rating) == FloatLt(rating, Zero) \/ FloatLt(Ten, rating)

----------------------------------------------------------------------------
(* Storage layer: table `book` of sqlite:///books.db *)

Ids(bs) == {b.id : b \in bs}

Max(S) == CHOOSE m \in S : \A x \in S : x <= m

\* NextId taking the lowest id no row has.
NextId_Lowest(bs) == CHOOSE n \in 1..(Cardinality(bs) + 1) : n \notin Ids(bs)

\* id is an INTEGER PRIMARY KEY without AUTOINCREMENT: a new row gets one more
\* than the largest id present in the table, 1 in an empty table.
NextId(bs) == IF bs = {} THEN 1 ELSE Max(Ids(bs)) + 1

\* ViolatesUnique with the unique constraint dropped from the column.
ViolatesUnique_Off(bs, title) == FALSE

\* title is unique=True: an insert of a title already present raises.
ViolatesUnique(bs, title) == \E b \in bs : b.title = title

\* rating is nullable=False, and the driver binds a NaN as NULL: writing one raises.
ViolatesNotNull(rating) == rating.kind = "nan"

\* Book(title=..., author=..., rating=...); db.session.add(new_book)
Insert(bs, title, author, rating) ==
    bs \cup {[id |-> NextId(bs), title |-> title, author |-> author, rating |-> rating]}

\* Update that also clears the author.
Update_AuthorToo(bs, book, rating) ==
    (bs \ {book}) \cup {[book EXCEPT !.rating = rating, !.author = <<>>]}

\* book_to_update.rating = rating
Update(bs, book, rating) == (bs \ {book}) \cup {[book EXCEPT !.rating = rating]}

\* Delete without its WHERE clause.
Delete_All(bs, book) == {}

\* db.session.delete(book_to_delete)
Delete(bs, book) == bs \ {book}

\* Rollback that keeps the flushed change.
Rollback_Keep(before, after) == after

\* db.session.rollback(): the table as it was before the failed commit.
Rollback(before, after) == before

\* db.session.commit(): the flushed change becomes the table, or an exception
\* (a constraint violation, or any other storage failure) and the rollback.
Commit(before, after, failed) == IF failed THEN Rollback(before, after) ELSE after

\* The integer a text compares equal to in `WHERE book.id = ?` (numeric affinity
\* of the INTEGER column applied to the bound text), -1 when it is no integer.
SqlInteger(text) ==
    LET t == strip(text)
    IN  IF t # <<>> /\ AllDigits(t) THEN DigitsToNat(t) ELSE -1

\* db.get_or_404(Book, book_id): the rows found, none meaning abort(404).
Get(bs, book_id) ==
    LET key == SqlInteger(book_id)
    IN  {b \in bs : b.id = key}

\* db.select(Book).order_by(Book.title)
RECURSIVE OrderByTitle(_)
OrderByTitle(bs) ==
    IF bs = {} THEN <<>>
    ELSE LET first == CHOOSE b \in bs : \A c \in bs : ~TextLess(c.title, b.title)
         IN  <<first>> \o OrderByTitle(bs \ {first})

----------------------------------------------------------------------------
(* Requests and responses *)

\* request.form.get(key, ""), request.args.get(key): a field that was not sent
\* reads as empty (None and "" are both falsy in `not book_id`).
FormGet(form, key) == IF key \in DOMAIN form THEN form[key] ELSE <<>>

NoFields == [k \in {} |-> <<>>]

NoFlash == [message |-> "", arg |-> <<>>, category |-> ""]

\* flash(message, category); arg is the title formatted into the message.
Flash(message, arg, category) == [message |-> message, arg |-> arg, category |-> category]

Response(route, method, status, view, fl, payload) ==
    [route |-> route, method |-> method, status |-> status, view |-> view,
     flash |-> fl, payload |-> payload]

\* render_template(name, ...)
render_template(route, method, name, fl, payload) ==
    Response(route, method, 200, name, fl, payload)

\* redirect(url_for('home'))
redirect_home(route, method, fl) == Response(route, method, 302, "/", fl, <<>>)

\* NotFound answered like a missing id.
NotFound_Redirect(route, method) ==
    redirect_home(route, method, Flash("Invalid book ID.", <<>>, "error"))

\* abort(404) inside db.get_or_404
NotFound(route, method) == Response(route, method, 404, "", NoFlash, <<>>)

Idle == <<>>

----------------------------------------------------------------------------
(* Inputs *)

\* The decimal digit of n, for n in 0..9.
DigitText(n) == <<CHOOSE c \in DigitChars : DigitVal(c) = n>>

\* Ids as the pages' forms and links send them (the first one padded), ...
BookIdInputs == {<<" ", "0", "1">>} \cup {DigitText(n) : n \in 2..MaxId}

\* ... and an empty one and one that is no number.
IdInputs == {<<>>, <<"x">>} \cup BookIdInputs

RatingInputs ==
    {<<>>, <<"x">>, <<"-", "1">>, <<" ", "9", ".", "5">>, <<"1", "0">>,
     <<"1", "1">>, <<"i", "n", "f">>, <<"n", "a", "n">>}

AddForm(title, author, rating) == [title |-> title, author |-> author, rating |-> rating]

AddForms ==
    {AddForm(<<"a">>, <<"x">>, r) : r \in RatingInputs}
    \cup {AddForm(<<" ", "a", " ">>, <<" ", "x">>, <<"1", "0">>),
          AddForm(<<"A">>, <<"x">>, <<"1", "0">>),
          AddForm(<<" ">>, <<"x">>, <<"1", "0">>),
          AddForm(<<"A">>, <<>>, <<"x">>),
          AddForm(<<"A">>, <<"x">>, <<"x">>),
          [title |-> <<"A">>, author |-> <<"x">>],
          NoFields}

IdForms == {[id |-> i] : i \in IdInputs} \cup {NoFields}

EditForms ==
    {[id |-> <<" ", "0", "1">>, rating |-> r] : r \in RatingInputs}
    \cup {[id |-> i, rating |-> r] :
             i \in BookIdInputs, r \in {<<"x">>, <<" ", "9", ".", "5">>, <<"1", "0">>}}
    \cup {[id |-> <<"x">>, rating |-> <<"1", "0">>],
          [id |-> <<"x">>, rating |-> <<"x">>],
          [id |-> <<>>, rating |-> <<"1", "0">>],
          [rating |-> <<"1", "0">>],
          [id |-> <<"2">>]}

----------------------------------------------------------------------------
(* Handlers *)

Init ==
    /\ books = {}
    /\ pending = [w \in Workers |-> Idle]
    /\ resp = Response("", "", 0, "", NoFlash, <<>>)
    /\ assigned = {}

\* GET /
home ==
    /\ resp' = render_template("/", "GET", "index.html", NoFlash, OrderByTitle(books))
    /\ UNCHANGED <<books, pending, assigned>>

\* GET /add
add_get ==
    /\ resp' = render_template("/add", "GET", "add.html", NoFlash, <<>>)
    /\ UNCHANGED <<books, pending, assigned>>

AddError(message) ==
    render_template("/add", "POST", "add.html", Flash(message, <<>>, "error"), <<>>)

\* POST /add up to the duplicate-title read: a request that fails a check is
\* answered here, one that passes them holds its new Book until the commit.
add_validate(w, form) ==
    LET title      == strip(FormGet(form, "title"))
        author     == strip(FormGet(form, "author"))
        rating_str == strip(FormGet(form, "rating"))
        rating     == float(rating_str)
        existing_book == {b \in books : b.title = title}
    IN  /\ pending[w] = Idle
        /\ IF title = <<>> \/ author = <<>> \/ rating_str = <<>>
           THEN resp' = AddError("All fields are required.") /\ UNCHANGED pending
           ELSE IF rating = ValueError
           THEN resp' = AddError("Rating must be a valid number.") /\ UNCHANGED pending
           ELSE IF OutOfRange(rating)
           THEN resp' = AddError("Rating must be between 0 and 10.") /\ UNCHANGED pending
           ELSE IF existing_book # {}
           THEN resp' = AddError("A book with this title already exists.")
                /\ UNCHANGED pending
           ELSE /\ pending' = [pending EXCEPT ![w] =
                        <<[title |-> title, author |-> author, rating |-> rating]>>]
                /\ UNCHANGED resp
        /\ UNCHANGED <<books, assigned>>

\* POST /add from db.session.add to the response.
add_commit(w, ioerror) ==
    /\ pending[w] # Idle
    /\ LET new_book == pending[w][1]
           after    == Insert(books, new_book.title, new_book.author, new_book.rating)
           failed   == \/ ioerror
                       \/ ViolatesUnique(books, new_book.title)
                       \/ ViolatesNotNull(new_book.rating)
       IN  /\ failed \/ NextId(books) <= MaxId
           /\ books' = Commit(books, after, failed)
           /\ assigned' = IF failed THEN assigned ELSE assigned \cup {NextId(books)}
           /\ resp' = IF failed
                      THEN AddError("An error occurred while adding the book.")
                      ELSE redirect_home("/add", "POST",
                               Flash("Book added successfully!", <<>>, "success"))
    /\ pending' = [pending EXCEPT ![w] = Idle]

InvalidId(route, method) ==
    redirect_home(route, method, Flash("Invalid book ID.", <<>>, "error"))

\* EditError that redirects to the list view instead of re-rendering the form.
EditError_Redirect(message, book) ==
    redirect_home("/edit", "POST", Flash(message, <<>>, "error"))

EditError(message, book) ==
    render_template("/edit", "POST", "edit_rating.html",
                    Flash(message, <<>>, "error"), <<book>>)

\* POST /edit, lines 152-161: the commit of the changed rating and the redirect.
edit_commit(book_to_update, rating, ioerror) ==
    LET failed == ioerror \/ ViolatesNotNull(rating)
    IN  /\ books' = Commit(books, Update(books, book_to_update, rating), failed)
        /\ resp' = redirect_home("/edit", "POST",
               IF failed
               THEN Flash("An error occurred while updating the rating.", <<>>, "error")
               ELSE Flash("Rating updated successfully!", <<>>, "success"))

\* POST /edit
edit_post(form) ==
    LET book_id    == FormGet(form, "id")
        found      == Get(books, book_id)
        book_to_update == CHOOSE b \in found : TRUE
        rating_str == strip(FormGet(form, "rating"))
        rating     == float(rating_str)
    IN  /\ IF book_id = <<>>
           THEN resp' = InvalidId("/edit", "POST") /\ UNCHANGED books
           ELSE IF found = {}
           THEN resp' = NotFound("/edit", "POST") /\ UNCHANGED books
           ELSE IF rating_str = <<>>
           THEN resp' = EditError("Rating is required.", book_to_update)
                /\ UNCHANGED books
           ELSE IF rating = ValueError
           THEN resp' = EditError("Rating must be a valid number.", book_to_update)
                /\ UNCHANGED books
           ELSE IF OutOfRange(rating)
           THEN resp' = EditError("Rating must be between 0 and 10.", book_to_update)
                /\ UNCHANGED books
           ELSE \E ioerror \in BOOLEAN : edit_commit(book_to_update, rating, ioerror)
        /\ UNCHANGED <<pending, assigned>>

\* GET /edit?id=...
edit_get(args) ==
    LET book_id == FormGet(args, "id")
        found   == Get(books, book_id)
        book_selected == CHOOSE b \in found : TRUE
    IN  /\ resp' = IF book_id = <<>> THEN InvalidId("/edit", "GET")
                   ELSE IF found = {} THEN NotFound("/edit", "GET")
                   ELSE render_template("/edit", "GET", "edit_rating.html",
                                        NoFlash, <<book_selected>>)
        /\ UNCHANGED <<books, pending, assigned>>

\* POST /delete, lines 188-199: the removal, its commit and the redirect.
delete_commit(book_to_delete, ioerror) ==
    /\ books' = Commit(books, Delete(books, book_to_delete), ioerror)
    /\ resp' = redirect_home("/delete", "POST",
           IF ioerror
           THEN Flash("An error occurred while deleting the book.", <<>>, "error")
           ELSE Flash("has been deleted successfully!", book_to_delete.title, "success"))

\* POST /delete
delete(form) ==
    LET book_id == FormGet(form, "id")
        found   == Get(books, book_id)
        book_to_delete == CHOOSE b \in found : TRUE
    IN  /\ IF book_id = <<>>
           THEN resp' = InvalidId("/delete", "POST") /\ UNCHANGED books
           ELSE IF found = {}
           THEN resp' = NotFound("/delete", "POST") /\ UNCHANGED books
           ELSE \E ioerror \in BOOLEAN : delete_commit(book_to_delete, ioerror)
        /\ UNCHANGED <<pending, assigned>>

Next ==
    \/ home
    \/ add_get
    \/ \E w \in Workers, form \in AddForms : add_validate(w, form)
    \/ \E w \in Workers, ioerror \in BOOLEAN : add_commit(w, ioerror)
    \/ \E form \in EditForms : edit_post(form)
    \/ \E args \in IdForms : edit_get(args)
    \/ \E form \in IdForms : delete(form)

Spec == Init /\ [][Next]_vars

----------------------------------------------------------------------------
(* Notions the properties are stated in *)

\* s without its leading and trailing spaces.
Trimmed(s) ==
    LET keep == {i \in 1..Len(s) : s[i] # " "}
    IN  IF keep = {} THEN <<>>
        ELSE SubSeq(s, CHOOSE i \in keep : \A j \in keep : i <= j, Max(keep))

\* The id an id text denotes, the text and the value a rating text denotes.
IdOf == [i \in IdInputs |-> SqlInteger(i)]

TextOf == [r \in RatingInputs |-> Trimmed(r)]

ValueOf == [r \in RatingInputs |-> float(Trimmed(r))]

\* 0 <= r <= 10
InRange(r) == r.kind = "fin" /\ 0 <= r.num /\ r.num <= 10 * r.den

\* The check of POST /add that a form fails first, by its message ("" for none).
FirstFailedCheck(form, bs) ==
    LET title  == Trimmed(FormGet(form, "title"))
        author == Trimmed(FormGet(form, "author"))
        rating == FormGet(form, "rating")
    IN  IF title = <<>> \/ author = <<>> \/ TextOf[rating] = <<>>
        THEN "All fields are required."
        ELSE IF ValueOf[rating] = ValueError THEN "Rating must be a valid number."
        ELSE IF ~InRange(ValueOf[rating]) THEN "Rating must be between 0 and 10."
        ELSE IF \E b \in bs : b.title = title
        THEN "A book with this title already exists."
        ELSE ""

\* A step of POST /add: a request thread goes from idle to holding a Book, or
\* answers from /add by POST.
IsAddStep == pending' # pending \/ (resp' # resp /\ resp'.route = "/add")

\* A step that is no step of POST /add and answers from `route`.
IsStepOf(route) ==
    /\ pending' = pending
    /\ resp' # resp \/ books' # books
    /\ resp'.route = route

----------------------------------------------------------------------------
(* C4 *)

\* C4: a POST /add that fails validation persists nothing, re-shows the add form
\* and reports the first failing check in the order required fields, numeric
\* parse, range [0, 10], duplicate title.
C4_AddReportsFirstFailedCheck ==
    [][IsAddStep =>
        \A w \in Workers, form \in AddForms :
            (pending[w] = Idle /\ add_validate(w, form)
                /\ FirstFailedCheck(form, books) # "")
            => /\ resp' = AddError(FirstFailedCheck(form, books))
               /\ books' = books
               /\ pending' = pending]_vars

----------------------------------------------------------------------------
(* C1 *)

\* C1: no two persisted records have the same title (case-sensitive, exact),
\* in every reachable state, also when two POST /add with the same trimmed
\* title both pass the duplicate-title read before either commits.
C1_TitlesUnique == \A b \in books, c \in books : b.title = c.title => b = c

\* A request that passed the duplicate-title read is still in flight while a
\* record with its title is persisted.
C1_Witness ==
    \E w \in Workers :
        /\ pending[w] # Idle
        /\ \E b \in books : b.title = pending[w][1].title

----------------------------------------------------------------------------
(* C2 *)

\* The record a request with the id field of `form` is about, as a set (empty:
\* none).
Target(form, bs) ==
    LET key == IdOf[FormGet(form, "id")]
    IN  {b \in bs : b.id = key}

\* C2: every persisted rating r has 0 <= r <= 10, and a rating text that parses
\* to a value outside [0, 10] (a non-finite one included) is rejected with
\* 'must be between 0 and 10' by POST /add and POST /edit and never written.
C2_RatingAlwaysInRange ==
    /\ [](\A b \in books : InRange(b.rating))
    /\ [][/\ IsAddStep =>
                \A w \in Workers, form \in AddForms :
                    (/\ pending[w] = Idle
                     /\ add_validate(w, form)
                     /\ FirstFailedCheck(form, books) = "Rating must be between 0 and 10.")
                    => /\ resp' = AddError("Rating must be between 0 and 10.")
                       /\ pending' = pending
                       /\ books' = books
          /\ IsStepOf("/edit") =>
                \A form \in EditForms :
                    LET rating == FormGet(form, "rating")
                    IN  (/\ FormGet(form, "id") # <<>>
                         /\ Target(form, books) # {}
                         /\ TextOf[rating] # <<>>
                         /\ ValueOf[rating] # ValueError
                         /\ ~InRange(ValueOf[rating])
                         /\ edit_post(form))
                        => /\ resp'.flash
                                = Flash("Rating must be between 0 and 10.", <<>>, "error")
                           /\ books' = books]_vars

----------------------------------------------------------------------------
(* C3 *)

\* C3 as stated: the id of a newly created record differs from every id
\* assigned earlier (those of deleted records included), and no request
\* changes the id of an existing record.
C3_IdsNeverReused ==
    [][/\ \A c \in books' : c.id \notin Ids(books) => c.id \notin assigned
       /\ \A b \in books, c \in books' : b.title = c.title => b.id = c.id]_vars

\* C3 amended: the id of a newly created record differs from the id of every
\* record persisted at that time (it is one more than the largest of them, 1 in
\* an empty table), persisted records have pairwise distinct ids, and no
\* request changes the id of an existing record.
C3_IdsFreshAmongPersisted ==
    [][/\ \A c \in books' : c.id \notin Ids(books) =>
              /\ c.id = (IF books = {} THEN 1 ELSE Max(Ids(books)) + 1)
              /\ assigned' = assigned \cup {c.id}
       /\ \A c \in books', d \in books' : c.id = d.id => c = d
       /\ \A b \in books, c \in books' : b.title = c.title => b.id = c.id]_vars

\* POST /add has just created a record whose id is below one assigned earlier:
\* the id of a deleted record, assigned again.
C3_Witness ==
    /\ resp.route = "/add"
    /\ resp.status = 302
    /\ books # {}
    /\ Max(Ids(books)) < Max(assigned)

----------------------------------------------------------------------------
(* C5 *)

\* The values the rating texts of the forms denote.
RatingOf(text) ==
    CASE text = <<" ", "9", ".", "5">> -> Fin(95, 10)
      [] text = <<"1", "0">> -> Fin(10, 1)

\* C5: a POST /add that passes the four checks holds the Book with the trimmed
\* title, the trimmed author and the parsed rating, and when its commit
\* succeeds the table is the previous table plus that one record under an id
\* no persisted record has, with a success message and a redirect to the list.
C5_AddCreatesExactlyOneRecord ==
    [][IsAddStep =>
        \A w \in Workers :
            /\ pending[w] = Idle =>
                 \A form \in AddForms :
                     (add_validate(w, form) /\ FirstFailedCheck(form, books) = "")
                     => /\ pending'[w] =
                             <<[title  |-> Trimmed(form.title),
                                author |-> Trimmed(form.author),
                                rating |-> RatingOf(form.rating)]>>
                        /\ books' = books
            /\ (/\ pending[w] # Idle
                /\ add_commit(w, FALSE)
                /\ InRange(pending[w][1].rating)
                /\ \A b \in books : b.title # pending[w][1].title)
               => /\ \E b \in books' :
                       /\ b \notin books
                       /\ books' = books \cup {b}
                       /\ b.id \notin Ids(books)
                       /\ b.title = pending[w][1].title
                       /\ b.author = pending[w][1].author
                       /\ b.rating = pending[w][1].rating
                  /\ Cardinality(books') = Cardinality(books) + 1
                  /\ resp' = Response("/add", "POST", 302, "/",
                                 Flash("Book added successfully!", <<>>, "success"),
                                 <<>>)]_vars

\* A second record, rated 9.5 from the text " 9.5", has just been added.
C5_Witness ==
    /\ resp.route = "/add"
    /\ resp.flash.category = "success"
    /\ Cardinality(books) = 2
    /\ \E b \in books : b.id = Max(Ids(books)) /\ b.rating = Fin(95, 10)

----------------------------------------------------------------------------
(* C6 *)

\* C6: a successful POST /edit changes only the rating of the record with the
\* submitted id, creating and removing nothing, and no request changes the
\* title or the author of a record.
C6_EditChangesOnlyRating ==
    [][/\ \A b \in books, c \in books' :
              b.id = c.id => b.title = c.title /\ b.author = c.author
       /\ (IsStepOf("/edit") /\ resp'.flash.category = "success") =>
              \A form \in EditForms :
                  edit_post(form) =>
                      \E b \in Target(form, books) :
                          books' = (books \ {b}) \cup
                              {[id |-> b.id, title |-> b.title, author |-> b.author,
                                rating |-> RatingOf(form.rating)]}]_vars

\* The rating of one of two records has just been edited, and the two records
\* now have different ratings.
C6_Witness ==
    /\ resp.route = "/edit"
    /\ resp.flash.category = "success"
    /\ \E b \in books, c \in books : b.id # c.id /\ b.rating # c.rating

----------------------------------------------------------------------------
(* C7 *)

\* What C7 requires of a request with the id field of `form`.
IdOutcome(form, route, method) ==
    LET absent == "id" \notin DOMAIN form \/ form["id"] = <<>>
    IN  /\ absent =>
              /\ resp' = Response(route, method, 302, "/",
                             Flash("Invalid book ID.", <<>>, "error"), <<>>)
              /\ books' = books
        /\ (~absent /\ Target(form, books) = {}) =>
              /\ resp'.status = 404
              /\ resp'.view \notin {"/", "edit_rating.html", "add.html", "index.html"}
              /\ resp'.route = route
              /\ books' = books

\* C7: GET /edit, POST /edit and POST /delete with a non-empty id that matches
\* no persisted record end in a not-found response whatever else is submitted,
\* and with an absent or empty id in the 'invalid ID' error and a redirect to
\* the list view; the table is unchanged in both cases. (Stated as: a step
\* with another outcome is no step of the handler on that request.)
C7_UnknownIdIsNotFound ==
    [][(IsStepOf("/edit") \/ IsStepOf("/delete")) =>
        /\ \A form \in EditForms : ~IdOutcome(form, "/edit", "POST") => ~edit_post(form)
        /\ \A args \in IdForms : ~IdOutcome(args, "/edit", "GET") => ~edit_get(args)
        /\ \A form \in IdForms : ~IdOutcome(form, "/delete", "POST") => ~delete(form)]_vars

\* A POST /edit for an id no persisted record has was answered not-found while
\* another record is persisted.
C7_Witness ==
    /\ resp.route = "/edit"
    /\ resp.method = "POST"
    /\ resp.status = 404
    /\ books # {}

----------------------------------------------------------------------------
(* C8 *)

\* C8: a POST /delete with the id of a persisted record whose commit succeeds
\* removes exactly that record (one record fewer, the others unchanged, the
\* record in no listing of the table), signals success naming the deleted
\* title and redirects to the list view; and a listing is all the persisted
\* records, each once.
C8_DeleteRemovesExactlyOne ==
    /\ [](resp.view = "index.html" =>
            /\ Len(resp.payload) = Cardinality(books)
            /\ {resp.payload[i] : i \in 1..Len(resp.payload)} = books)
    /\ [][IsStepOf("/delete") =>
            \A form \in IdForms :
                (/\ delete(form)
                 /\ FormGet(form, "id") # <<>>
                 /\ Target(form, books) # {}
                 /\ resp'.flash.category # "error")
                => \E b \in Target(form, books) :
                       /\ books' = books \ {b}
                       /\ Cardinality(books') = Cardinality(books) - 1
                       /\ \A i \in 1..Len(OrderByTitle(books')) :
                              OrderByTitle(books')[i] # b
                       /\ resp' = Response("/delete", "POST", 302, "/",
                                      Flash("has been deleted successfully!",
                                            b.title, "success"), <<>>)]_vars

\* One of two records has just been deleted.
C8_Witness ==
    /\ resp.route = "/delete"
    /\ resp.flash.category = "success"
    /\ Cardinality(books) = 1
    /\ \A b \in books : b.title # resp.flash.arg

----------------------------------------------------------------------------
(* C9 *)

\* C9 as stated: every POST /edit that supplies an id is answered with a
\* redirect to the list view.
C9_EditPostAlwaysRedirects ==
    (resp.route = "/edit" /\ resp.method = "POST"
        /\ resp.flash.message # "Invalid book ID.")
    => (resp.status = 302 /\ resp.view = "/")

\* What C9, as amended, requires of the response to POST /edit with `form`.
EditPostOutcome(form) ==
    LET id     == FormGet(form, "id")
        rating == FormGet(form, "rating")
    IN  IF id = <<>>
        THEN resp'.status = 302 /\ resp'.view = "/"
        ELSE IF Target(form, books) = {}
        THEN resp'.status = 404 /\ resp'.view = ""
        ELSE IF \/ TextOf[rating] = <<>>
                \/ ValueOf[rating] = ValueError
                \/ FloatLt(ValueOf[rating], Zero)
                \/ FloatLt(Ten, ValueOf[rating])
        THEN /\ resp'.status = 200
             /\ resp'.view = "edit_rating.html"
             /\ \E b \in Target(form, books) : resp'.payload = <<b>>
             /\ resp'.flash.category = "error"
        ELSE resp'.status = 302 /\ resp'.view = "/"

\* C9 amended: POST /edit redirects to the list view when the id is absent or
\* empty, and when the id is that of a persisted record and the rating text is
\* non-empty, parses, and is neither below 0 nor above 10 (whether the commit
\* then succeeds or fails); with an id no record has it ends in a not-found
\* response, and with the id of a record and an empty, unparsable, below-0 or
\* above-10 rating it re-renders the edit form for that record.
C9_EditPostResponses ==
    [][(IsStepOf("/edit") /\ resp'.method = "POST") =>
        \A form \in EditForms :
            ~EditPostOutcome(form) => ~edit_post(form)]_vars

\* A POST /edit with the id of a persisted record was answered with the edit
\* form and the range error.
C9_Witness ==
    /\ resp.route = "/edit"
    /\ resp.method = "POST"
    /\ resp.view = "edit_rating.html"
    /\ resp.flash.message = "Rating must be between 0 and 10."

----------------------------------------------------------------------------
(* C10 *)

\* C10: when the commit of an add, edit or delete fails (a storage failure or
\* a constraint of the table), the table is as before the request, a generic
\* message of severity 'error' and no success message is surfaced, and the
\* response is the add form for add and a redirect to the list view for edit
\* and delete.
C10_FailedCommitChangesNothing ==
    [][/\ IsAddStep =>
            \A w \in Workers, ioerror \in BOOLEAN :
                (/\ pending[w] # Idle
                 /\ add_commit(w, ioerror)
                 /\ \/ ioerror
                    \/ \E b \in books : b.title = pending[w][1].title
                    \/ pending[w][1].rating = NaN)
                => /\ books' = books
                   /\ resp' = Response("/add", "POST", 200, "add.html",
                                  Flash("An error occurred while adding the book.",
                                        <<>>, "error"), <<>>)
       /\ (IsStepOf("/edit") /\ resp'.status = 302) =>
            \A form \in EditForms :
                LET rating == ValueOf[FormGet(form, "rating")]
                IN  \A b \in Target(form, books) :
                        (/\ edit_post(form)
                         /\ \/ edit_commit(b, rating, TRUE)
                            \/ (rating = NaN /\ edit_commit(b, rating, FALSE)))
                        => /\ books' = books
                           /\ resp' = Response("/edit", "POST", 302, "/",
                                  Flash("An error occurred while updating the rating.",
                                        <<>>, "error"), <<>>)
       /\ IsStepOf("/delete") =>
            \A form \in IdForms :
                \A b \in Target(form, books) :
                    (delete(form) /\ delete_commit(b, TRUE))
                    => /\ books' = books
                       /\ resp' = Response("/delete", "POST", 302, "/",
                              Flash("An error occurred while deleting the book.",
                                    <<>>, "error"), <<>>)]_vars

\* The commit of a POST /add has just failed while a record is persisted.
C10_Witness ==
    /\ resp.flash.message = "An error occurred while adding the book."
    /\ resp.flash.category = "error"
    /\ books # {}

====
